---- MODULE Spec2Model ----
(***************************************************************************)
(* Terminal session connection manager of claude-code-gui:                 *)
(*   - useTerminalStore   (src/src/store/terminal-store.ts)                *)
(*   - usePty             (src/src/hooks/use-pty.ts, first revision in     *)
(*                         the file, the one with handleSessionLost)       *)
(*   - usePtyConnection   (src/unnamed/part_007: output path, auto-spawn)  *)
(*   - the store calls of useTerminal (src/src/hooks/use-terminal.ts)      *)
(* together with a black-box backend that answers the four commands        *)
(* (ptySpawn, ptyWrite, ptyResize, ptyKill) and emits PtyEvents on the     *)
(* Channel handed to ptySpawn.                                             *)
(*                                                                         *)
(* The UI side is single threaded: every callback (public operation,       *)
(* channel.onmessage, promise continuation) runs to completion, so each    *)
(* is one action.  An `await` / `.then` splits an operation in the part    *)
(* before the call and the continuation that runs on the answer.           *)
(***************************************************************************)
EXTENDS Integers, Sequences, FiniteSets, Bags, TLC

\* ---------------------------------------------------------------- bounds
MaxSpawns   == 2     \* spawn() calls (hence channels and session ids) per run
MaxEvents   == 1     \* events in flight (emitted, not yet handled), all channels together
MaxInflight == 1     \* write / resize / kill calls awaiting their answer
MaxEmit     == 3     \* events of the one session whose observer calls are logged
MaxOut      == 3     \* Output events per session on the output path
MaxAuto     == 4     \* spawn calls the auto-spawn effect makes per run
MaxStream   == 4     \* bytes of output handed to one decoder
MaxChunk    == 2     \* bytes in one chunk of that output
MaxLine     == 3     \* UTF-16 code units in the line buffer before a handleData call

\* ------------------------------------------------------------- vocabulary
NULL == 0                                  \* `null` session id
MAX_SPAWN_RETRIES == 3
AutoIds == 1..MaxAuto                      \* the spawn calls of the auto-spawn effect
SessionIds == 1..MaxSpawns                 \* the id the backend gives spawn k is k
Statuses == {"disconnected", "connecting", "connected", "error"}
ExitCodes == {1}                           \* Exit payloads (code: 1)
NullCode == -1                             \* Exit payload code: null
Chunks == {<<36, 32>>}                     \* Output payloads ("$ ")
Texts == {<<108, 233>>}                    \* write() arguments, as code points
Dims == {<<80, 24>>}                       \* resize() arguments
OutChunks == {<<104, 105>>, <<195>>, <<169>>}   \* "hi", and U+00E9 split in its two bytes
DecBytes == {104, 195, 169, 239, 187, 191}  \* "h", the bytes of U+00E9 and of U+FEFF
LineData == {<<97>>, <<98>>, <<13>>, <<127>>, <<8>>, <<27>>,   \* "a" "b" CR DEL BS ESC
             <<55357, 56832>>, <<97, 98, 13>>}               \* U+1F600, "ab" CR
Writers == {1}                             \* the emulator's write function
FitDims == {<<80, 24>>, <<120, 40>>}       \* sizes the emulator fits itself to
Results == {"ok", "SessionNotFound", "IoError"}

PtyEvents ==
       [event : {"Output"}, data : Chunks]
  \cup [event : {"Exit"}, code : ExitCodes]
  \cup [event : {"Error"}]

\* TextEncoder.encode followed by Array.from: the UTF-8 bytes of the text
RECURSIVE Utf8Encode(_)
Utf8Encode(text) ==
  IF text = <<>> THEN <<>>
  ELSE LET c == Head(text)
           b == IF c < 128 THEN <<c>>
                ELSE IF c < 2048 THEN <<192 + (c \div 64), 128 + (c % 64)>>
                ELSE IF c < 65536
                  THEN <<224 + (c \div 4096), 128 + ((c \div 64) % 64), 128 + (c % 64)>>
                ELSE <<240 + (c \div 262144), 128 + ((c \div 4096) % 64),
                       128 + ((c \div 64) % 64), 128 + (c % 64)>>
       IN b \o Utf8Encode(Tail(text))

VARIABLES
  connectionStatus,  \* store.connectionStatus
  sessionId,         \* store.sessionId
  sessionIdRef,      \* usePty: sessionIdRef.current
  mounted,           \* the hook is mounted (its unmount cleanup has not run)
  nSpawn,            \* spawn() calls made so far; call k owns channel k
  callState,         \* ptySpawn call k: unissued / sent / respOk (answer on its way) / resolved
  handlerSet,        \* channel k has its onmessage handler installed
  chan,              \* channel k: events emitted by the backend, not yet handled
  backend,           \* backend session k: none / running / killed / exited
  inflight,          \* bag of the write / resize / kill calls awaiting their answer
  seenPending,       \* Exit / Error events handled on channel k while call k is pending
                     \* (SpecKill: also "kill", a kill() made with no id held meanwhile)
  dropped,           \* an event reached a channel that had no handler
  lastOp,            \* the callback that ran last (history variable)
  isReady,           \* store.isReady
  isWebGLActive,     \* store.isWebGLActive
  cols,              \* store.cols
  rows,              \* store.rows
  emitted,           \* logged session: the events its backend emitted, oldest first
  observed,          \* logged session: the calls its observers received, oldest first
  writeRef,          \* usePtyConnection: writeRef.current (NULL: no writer attached)
  pendingOutputRef,  \* usePtyConnection: pendingOutputRef.current
  decoderRef,        \* usePtyConnection: decoderRef.current, the state of the TextDecoder
  delivered,         \* the texts the writer was called with in this session, oldest first
  fragments,         \* the texts the decoder returned in this session, oldest first
  held,              \* the fragments decoded since the writer was last detached
  fed,               \* the bytes handed to decoderRef since it was made
  lineBufferRef,     \* useLineBuffer: the line typed so far, as UTF-16 code units
  lineWriteRef,      \* useLineBuffer: writeRef, the writer set by setWrite, or NULL
  rendered,          \* TerminalPanel: isReady, cols, rows and isConnected as of its
                     \* last render, the one whose effects ran last
  lastResize,        \* the session id and size of the last ptyResize call made
  lineLog,           \* the last handleData call: its argument (data), the writes it
                     \* made (out), and the characters typed since the last CR and
                     \* not taken back by a backspace (typed)
  spawnedRef,        \* usePtyConnection: spawnedRef.current
  spawnRetryRef,     \* usePtyConnection: spawnRetryRef.current
  readySeen,         \* the isReady the auto-spawn effect last ran with
  failed             \* spawn calls that failed so far

ptyVars == <<connectionStatus, sessionId, sessionIdRef, mounted, nSpawn, callState,
             handlerSet, chan, backend, inflight, seenPending, dropped, lastOp>>
emulatorVars == <<isReady, isWebGLActive, cols, rows>>
logVars == <<emitted, observed>>
outVars == <<writeRef, pendingOutputRef, decoderRef, delivered, fragments, held>>
autoVars == <<spawnedRef, spawnRetryRef, readySeen, failed>>
lineVars == <<lineBufferRef, lineWriteRef, lineLog>>
panelVars == <<rendered, lastResize>>
sideVars == <<fed, lineVars, panelVars>>

vars == <<ptyVars, emulatorVars, logVars, outVars, autoVars, sideVars>>

store == <<connectionStatus, sessionId>>
session == <<connectionStatus, sessionId, sessionIdRef>>
spawnSide == <<nSpawn, callState, handlerSet>>

\* lastOp: which callback ran last, the answer it ran on, and for a spawn
\* continuation the id returned and the events handled while the call was pending
Op(o, r, id, seen) == [op |-> o, res |-> r, id |-> id, seen |-> seen]
Did(o) == Op(o, "none", NULL, {})

\* new TextDecoder('utf-8', {fatal: false}): no byte sequence under way and
\* the byte order mark not yet looked for
NewDecoder == [cp |-> 0, seen |-> 0, needed |-> 0, lower |-> 128, upper |-> 191, bomSeen |-> FALSE]

Restart(d) == [d EXCEPT !.cp = 0, !.seen = 0, !.needed = 0, !.lower = 128, !.upper = 191]

\* The UTF-8 decoder of the Encoding standard, byte by byte: a malformed
\* sequence gives U+FFFD and the byte that broke it is looked at again.
RECURSIVE Utf8Decode(_, _)
Utf8Decode(d, bytes) ==
  IF bytes = <<>> THEN [dec |-> d, text |-> <<>>]
  ELSE
    LET b == Head(bytes)
        Then(out, d2, rest) ==
          LET r == Utf8Decode(d2, rest) IN [dec |-> r.dec, text |-> out \o r.text]
    IN
      IF d.needed = 0
        THEN IF b <= 127 THEN Then(<<b>>, d, Tail(bytes))
             ELSE IF b \in 194..223
               THEN Then(<<>>, [d EXCEPT !.needed = 1, !.cp = b - 192], Tail(bytes))
             ELSE IF b \in 224..239
               THEN Then(<<>>, [d EXCEPT !.needed = 2, !.cp = b - 224,
                                         !.lower = IF b = 224 THEN 160 ELSE 128,
                                         !.upper = IF b = 237 THEN 159 ELSE 191],
                         Tail(bytes))
             ELSE IF b \in 240..244
               THEN Then(<<>>, [d EXCEPT !.needed = 3, !.cp = b - 240,
                                         !.lower = IF b = 240 THEN 144 ELSE 128,
                                         !.upper = IF b = 244 THEN 143 ELSE 191],
                         Tail(bytes))
             ELSE Then(<<65533>>, d, Tail(bytes))
      ELSE IF b \notin d.lower..d.upper
        THEN Then(<<65533>>, Restart(d), bytes)
      ELSE IF d.seen + 1 = d.needed
        THEN Then(<<d.cp * 64 + (b - 128)>>, Restart(d), Tail(bytes))
      ELSE Then(<<>>, [d EXCEPT !.cp = d.cp * 64 + (b - 128), !.seen = d.seen + 1,
                                !.lower = 128, !.upper = 191],
                Tail(bytes))

\* variant: decode(data) without {stream: true}: every call starts afresh and
\* an unfinished sequence at the end of data gives U+FFFD
Decode_NoStream(d, data) ==
  LET r == Utf8Decode(NewDecoder, data)
      t == IF r.dec.needed > 0 THEN Append(r.text, 65533) ELSE r.text
  IN [dec |-> NewDecoder,
      text |-> IF t # <<>> /\ Head(t) = 65279 THEN Tail(t) ELSE t]

\* decoder.decode(data, {stream: true}): the code points completed by data;
\* an unfinished sequence stays in the decoder; a byte order mark at the
\* start of the stream is dropped
Decode(d, data) ==
  LET r == Utf8Decode(d, data) IN
    IF d.bomSeen \/ r.text = <<>> THEN r
    ELSE [dec |-> [r.dec EXCEPT !.bomSeen = TRUE],
          text |-> IF Head(r.text) = 65279 THEN Tail(r.text) ELSE r.text]

\* Array.prototype.join(''): the texts one after the other
RECURSIVE Join(_)
Join(texts) == IF texts = <<>> THEN <<>> ELSE Head(texts) \o Join(Tail(texts))

RECURSIVE SumLen(_, _)
SumLen(f, n) == IF n = 0 THEN 0 ELSE Len(f[n]) + SumLen(f, n - 1)
InFlightEvents == SumLen(chan, MaxSpawns)

Pending(k) == callState[k] \in {"sent", "respOk"}

\* The state after the first render, with room for the spawn calls in ids
InitWith(ids) ==
  /\ connectionStatus = "disconnected"
  /\ sessionId = NULL
  /\ sessionIdRef = NULL
  /\ mounted = TRUE
  /\ nSpawn = 0
  /\ callState = [k \in ids |-> "unissued"]
  /\ handlerSet = [k \in ids |-> FALSE]
  /\ chan = [k \in ids |-> <<>>]
  /\ backend = [k \in ids |-> "none"]
  /\ inflight = EmptyBag
  /\ seenPending = [k \in ids |-> {}]
  /\ dropped = FALSE
  /\ lastOp = Did("init")
  /\ isReady = FALSE
  /\ isWebGLActive = FALSE
  /\ cols = 80
  /\ rows = 24
  /\ emitted = <<>>
  /\ observed = <<>>
  /\ writeRef = NULL
  /\ pendingOutputRef = <<>>
  /\ decoderRef = NewDecoder
  /\ delivered = <<>>
  /\ fragments = <<>>
  /\ held = <<>>
  /\ fed = <<>>
  /\ rendered = [isReady |-> FALSE, cols |-> 80, rows |-> 24, isConnected |-> FALSE]
  /\ lastResize = [id |-> NULL, dim |-> <<>>]
  /\ lineBufferRef = <<>>
  /\ lineWriteRef = NULL
  /\ lineLog = [data |-> <<>>, out |-> <<>>, typed |-> <<>>]
  /\ spawnedRef = FALSE
  /\ spawnRetryRef = 0
  /\ readySeen = FALSE
  /\ failed = 0

Init == InitWith(SessionIds)

\* ------------------------------------------------------------ usePty.spawn
\* variant: spawn() leaves the status as it finds it
SpawnIssue_KeepStatus(k, installs) ==
  /\ UNCHANGED connectionStatus
  /\ handlerSet' = [handlerSet EXCEPT ![k] = installs]
  /\ callState' = [callState EXCEPT ![k] = "sent"]
  /\ nSpawn' = k

\* Synchronous part of spawn(): everything up to `await commands.ptySpawn`.
\* installs says whether channel.onmessage is assigned before the call.
SpawnIssue(k, installs) ==
  /\ connectionStatus' = "connecting"
  /\ handlerSet' = [handlerSet EXCEPT ![k] = installs]
  /\ callState' = [callState EXCEPT ![k] = "sent"]
  /\ nSpawn' = k

\* variant: onmessage is not assigned before the call goes out
SpawnBegin_HandlerLate(k) == SpawnIssue(k, FALSE)

SpawnBegin(k) == SpawnIssue(k, TRUE)

Spawn ==
  /\ mounted
  /\ nSpawn < MaxSpawns
  /\ SpawnBegin(nSpawn + 1)
  /\ lastOp' = Did("spawn")
  /\ UNCHANGED <<sessionId, sessionIdRef, mounted, chan, backend, inflight,
                 seenPending, dropped>>

\* channel.onmessage, the three branches.
\* Output: the bytes are handed to the data observer (onDataRef.current);
\* the status and the session id are not touched.
OnOutput == UNCHANGED session

\* variant: Exit resets the status but keeps the session id
OnExit_KeepId ==
  /\ connectionStatus' = "disconnected"
  /\ UNCHANGED <<sessionId, sessionIdRef>>

\* Exit: status, store id and sessionIdRef are reset, then the exit observer
\* (onExitRef.current) is told the code.
OnExit ==
  /\ connectionStatus' = "disconnected"
  /\ sessionId' = NULL
  /\ sessionIdRef' = NULL

\* Error: only the status changes; the session id stays as it is.
OnError ==
  /\ connectionStatus' = "error"
  /\ UNCHANGED <<sessionId, sessionIdRef>>

\* new Uint8Array(numbers): every element is taken modulo 256
ToUint8Array(data) == [i \in 1..Len(data) |-> data[i] % 256]

\* variant: an Output event is handed to the data observer twice
ObserverCalls_DataTwice(ev) ==
  CASE ev.event = "Output" -> <<[obs |-> "data", bytes |-> ToUint8Array(ev.data)],
                                [obs |-> "data", bytes |-> ToUint8Array(ev.data)]>>
    [] ev.event = "Exit" -> <<[obs |-> "exit", code |-> ev.code]>>
    [] ev.event = "Error" -> <<>>

\* channel.onmessage: the observer calls of each branch, in the order made
ObserverCalls(ev) ==
  CASE ev.event = "Output" -> <<[obs |-> "data", bytes |-> ToUint8Array(ev.data)]>>
    [] ev.event = "Exit" -> <<[obs |-> "exit", code |-> ev.code]>>
    [] ev.event = "Error" -> <<>>

\* The channel hands its oldest event to the handler.
OnMessage(k) ==
  /\ chan[k] # <<>>
  /\ LET ev == Head(chan[k]) IN
       /\ chan' = [chan EXCEPT ![k] = Tail(@)]
       /\ IF handlerSet[k]
            THEN /\ CASE ev.event = "Output" -> OnOutput
                      [] ev.event = "Exit" -> OnExit
                      [] ev.event = "Error" -> OnError
                 /\ seenPending' = IF Pending(k)
                                     THEN [seenPending EXCEPT ![k] = @ \cup ({ev.event} \ {"Output"})]
                                     ELSE seenPending
                 /\ UNCHANGED dropped
            ELSE /\ dropped' = TRUE
                 /\ UNCHANGED <<session, seenPending>>
       /\ lastOp' = Did(ev.event)
  /\ UNCHANGED <<mounted, spawnSide, backend, inflight>>

\* variant: the returned id is not stored
SpawnOk_NoStore(k, id) ==
  /\ connectionStatus' = "connected"
  /\ UNCHANGED <<sessionId, sessionIdRef>>

\* Continuation of spawn() after the await: result.status = 'ok', data = id
SpawnOk(k, id) ==
  /\ sessionIdRef' = id
  /\ sessionId' = id
  /\ connectionStatus' = "connected"

\* Continuation of spawn() after the await: result.status = 'error'
SpawnErr(k) ==
  /\ connectionStatus' = "error"
  /\ UNCHANGED <<sessionId, sessionIdRef>>

\* The answer {status: 'ok', data: k} of call k arrives.
SpawnResolve(k) ==
  /\ callState[k] = "respOk"
  /\ SpawnOk(k, k)
  /\ callState' = [callState EXCEPT ![k] = "resolved"]
  /\ seenPending' = [seenPending EXCEPT ![k] = {}]
  /\ lastOp' = Op("spawnResolved", "ok", k, seenPending[k])
  /\ UNCHANGED <<mounted, nSpawn, handlerSet, chan, backend, inflight, dropped>>

\* The backend could not start a session for call k: the call is answered
\* {status: 'error', error: SpawnError} and the continuation runs.
SpawnReject(k) ==
  /\ callState[k] = "sent"
  /\ SpawnErr(k)
  /\ callState' = [callState EXCEPT ![k] = "resolved"]
  /\ seenPending' = [seenPending EXCEPT ![k] = {}]
  /\ lastOp' = Op("spawnResolved", "SpawnError", NULL, seenPending[k])
  /\ UNCHANGED <<mounted, nSpawn, handlerSet, chan, backend, inflight, dropped>>

\* Continuation of spawn() when the awaited ptySpawn promise rejects: there is
\* no try/catch around the await, so nothing after it runs and the promise
\* spawn() returned rejects with the same reason.
SpawnThrow(k) == UNCHANGED session

\* The ptySpawn call k rejects instead of answering with a Result.
SpawnThrows(k) ==
  /\ callState[k] = "sent"
  /\ SpawnThrow(k)
  /\ callState' = [callState EXCEPT ![k] = "resolved"]
  /\ seenPending' = [seenPending EXCEPT ![k] = {}]
  /\ lastOp' = Op("spawnRejected", "rejected", NULL, seenPending[k])
  /\ UNCHANGED <<mounted, nSpawn, handlerSet, chan, backend, inflight, dropped>>

\* ---------------------------------------------------------------- backend
\* The backend starts the session of call k and answers with its id; its
\* reader thread may emit events from this moment on.
BackendSpawnOk(k) ==
  /\ callState[k] = "sent"
  /\ callState' = [callState EXCEPT ![k] = "respOk"]
  /\ backend' = [backend EXCEPT ![k] = "running"]
  /\ lastOp' = Did("backend")
  /\ UNCHANGED <<session, mounted, nSpawn, handlerSet, chan, inflight, seenPending,
                 dropped>>

\* Output and Error come from a running session; Exit ends a running or a
\* killed one.  Events of one session keep their order (chan[k] is FIFO).
Emit(k, ev) ==
  /\ IF ev.event = "Exit" THEN backend[k] \in {"running", "killed"}
                          ELSE backend[k] = "running"
  /\ chan' = [chan EXCEPT ![k] = Append(@, ev)]
  /\ backend' = IF ev.event = "Exit" THEN [backend EXCEPT ![k] = "exited"] ELSE backend
  /\ lastOp' = Did("backend")
  /\ UNCHANGED <<session, mounted, spawnSide, inflight, seenPending, dropped>>

BackendEmit(k, ev) ==
  /\ InFlightEvents < MaxEvents
  /\ Emit(k, ev)

\* ------------------------------------------- usePty.write / resize / kill
Call(cmd, id, arg, cont) == [cmd |-> cmd, id |-> id, arg |-> arg, cont |-> cont]
Issue(c) == inflight (+) SetToBag({c})
NInflight == BagCardinality(inflight)

\* variant: the store is reset but the hook keeps its own copy of the id
handleSessionLost_StoreOnly ==
  /\ UNCHANGED sessionIdRef
  /\ sessionId' = NULL
  /\ connectionStatus' = "disconnected"

handleSessionLost ==
  /\ sessionIdRef' = NULL
  /\ sessionId' = NULL
  /\ connectionStatus' = "disconnected"

\* variant: the text goes out as its code points, not encoded
WriteIssue_Raw(id, text) ==
  IF id = NULL THEN UNCHANGED inflight
  ELSE inflight' = Issue(Call("ptyWrite", id, text, "write"))

\* variant: the `if (!id) return` guard is missing
WriteIssue_NoGuard(id, text) ==
  inflight' = Issue(Call("ptyWrite", id, Utf8Encode(text), "write"))

\* write(data): `if (!id) return`, else encode and call ptyWrite(id, bytes)
WriteIssue(id, text) ==
  IF id = NULL THEN UNCHANGED inflight
  ELSE inflight' = Issue(Call("ptyWrite", id, Utf8Encode(text), "write"))

Write(text) ==
  /\ mounted
  /\ NInflight < MaxInflight
  /\ WriteIssue(sessionIdRef, text)
  /\ lastOp' = Did("write")
  /\ UNCHANGED <<session, mounted, spawnSide, chan, backend, seenPending, dropped>>

\* resize(cols, rows): `if (!id) return`, else call ptyResize(id, cols, rows)
ResizeIssue(id, dim) ==
  IF id = NULL THEN UNCHANGED inflight
  ELSE inflight' = Issue(Call("ptyResize", id, dim, "resize"))

Resize(dim) ==
  /\ mounted
  /\ NInflight < MaxInflight
  /\ ResizeIssue(sessionIdRef, dim)
  /\ lastOp' = Did("resize")
  /\ UNCHANGED <<session, mounted, spawnSide, chan, backend, seenPending, dropped>>

\* kill(), up to `await commands.ptyKill(id)`
KillIssue(id) ==
  IF id = NULL THEN UNCHANGED inflight
  ELSE inflight' = Issue(Call("ptyKill", id, <<>>, "kill"))

Kill ==
  /\ mounted
  /\ NInflight < MaxInflight
  /\ KillIssue(sessionIdRef)
  /\ lastOp' = Did("kill")
  /\ UNCHANGED <<session, mounted, spawnSide, chan, backend, seenPending, dropped>>

\* Unmount cleanup: `if (id) commands.ptyKill(id)`; the promise is dropped
UnmountIssue(id) ==
  IF id = NULL THEN UNCHANGED inflight
  ELSE inflight' = Issue(Call("ptyKill", id, <<>>, "none"))

Unmount ==
  /\ mounted
  /\ sessionIdRef # NULL => NInflight < MaxInflight
  /\ mounted' = FALSE
  /\ UnmountIssue(sessionIdRef)
  /\ lastOp' = Did("unmount")
  /\ UNCHANGED <<session, spawnSide, chan, backend, seenPending, dropped>>

\* variant: the answer of ptyWrite is only logged (second revision in the file)
WriteThen_Ignore(res) == UNCHANGED session

\* variant: any error is taken for a lost session
WriteThen_AnyError(res) ==
  IF res # "ok" THEN handleSessionLost ELSE UNCHANGED session

\* .then of ptyWrite: only SessionNotFound touches the state
WriteThen(res) ==
  IF res = "SessionNotFound" THEN handleSessionLost ELSE UNCHANGED session

\* variant: an error other than SessionNotFound is shown as status 'error'
ResizeThen_ErrorStatus(res) ==
  IF res = "SessionNotFound" THEN handleSessionLost
  ELSE IF res = "IoError" THEN connectionStatus' = "error" /\ UNCHANGED <<sessionId, sessionIdRef>>
  ELSE UNCHANGED session

\* .then of ptyResize
ResizeThen(res) ==
  IF res = "SessionNotFound" THEN handleSessionLost ELSE UNCHANGED session

\* variant: the state is reset only when the kill call succeeded
KillThen_OnlyOnOk(res) ==
  IF res = "ok" THEN handleSessionLost ELSE UNCHANGED session

\* kill() after the await: the error is logged, the state reset either way
KillThen(res) == handleSessionLost

\* variant: the answer of the cleanup's ptyKill is handled like kill()'s
UnmountThen_Reset(res) == handleSessionLost

\* The cleanup's ptyKill has no continuation: its answer touches nothing
UnmountThen(res) == UNCHANGED session

\* The backend answers the pending call c with res and the caller's
\* continuation runs.  A ptyKill answered ok has ended the session on the backend.
Answer(c, res) ==
  /\ BagIn(c, inflight)
  /\ c.cont \in {"write", "resize", "kill", "none"}
  /\ CASE c.cont = "write" -> WriteThen(res)
       [] c.cont = "resize" -> ResizeThen(res)
       [] c.cont = "kill" -> KillThen(res)
       [] c.cont = "none" -> UnmountThen(res)
  /\ backend' = IF c.cmd = "ptyKill" /\ res = "ok" /\ backend[c.id] = "running"
                  THEN [backend EXCEPT ![c.id] = "killed"]
                  ELSE backend
  /\ lastOp' = Op(c.cont \o "Resolved", res, NULL, {})
  /\ inflight' = inflight (-) SetToBag({c})
  /\ UNCHANGED <<mounted, spawnSide, chan, seenPending, dropped>>

\* ------------------------------------------------------------------- spec
\* usePty alone: nothing of the emulator side moves
PtyOnly == UNCHANGED <<emulatorVars, logVars, outVars, autoVars, sideVars>>

Next ==
  \/ Spawn /\ PtyOnly
  \/ \E k \in SessionIds : OnMessage(k) /\ PtyOnly
  \/ \E k \in SessionIds : SpawnResolve(k) /\ PtyOnly
  \/ \E k \in SessionIds : BackendSpawnOk(k) /\ PtyOnly
  \/ \E k \in SessionIds : SpawnReject(k) /\ PtyOnly
  \/ \E k \in SessionIds : SpawnThrows(k) /\ PtyOnly
  \/ \E k \in SessionIds, ev \in PtyEvents : BackendEmit(k, ev) /\ PtyOnly
  \/ \E text \in Texts : Write(text) /\ PtyOnly
  \/ \E dim \in Dims : Resize(dim) /\ PtyOnly
  \/ Kill /\ PtyOnly
  \/ \E c \in BagToSet(inflight), res \in Results : Answer(c, res) /\ PtyOnly

\* The manager for as long as the hook stays mounted
Spec == Init /\ [][Next]_vars

\* The manager with its disposal: the hook may unmount at any moment, after
\* which no public operation is called any more while events and answers
\* that are still on their way keep being handled.
NextTeardown ==
  \/ Next
  \/ Unmount /\ PtyOnly

SpecTeardown == Init /\ [][NextTeardown]_vars

\* Disposal on its own: sessions come and go (spawn, events, kill) and the
\* hook may unmount at any moment; write and resize are left out.
NextDispose ==
  \/ Spawn /\ PtyOnly
  \/ \E k \in SessionIds : OnMessage(k) /\ PtyOnly
  \/ \E k \in SessionIds : SpawnResolve(k) /\ PtyOnly
  \/ \E k \in SessionIds : BackendSpawnOk(k) /\ PtyOnly
  \/ \E k \in SessionIds : SpawnReject(k) /\ PtyOnly
  \/ \E k \in SessionIds, ev \in PtyEvents : BackendEmit(k, ev) /\ PtyOnly
  \/ Kill /\ PtyOnly
  \/ Unmount /\ PtyOnly
  \/ \E c \in BagToSet(inflight), res \in Results : Answer(c, res) /\ PtyOnly

SpecDispose == Init /\ [][NextDispose]_vars

\* kill() as in Kill, with a note on every pending spawn call when it was
\* made while no id is held
KillNoted ==
  /\ mounted
  /\ NInflight < MaxInflight
  /\ KillIssue(sessionIdRef)
  /\ lastOp' = Did("kill")
  /\ seenPending' = [k \in DOMAIN seenPending |->
                       IF Pending(k) /\ sessionIdRef = NULL
                         THEN seenPending[k] \cup {"kill"}
                         ELSE seenPending[k]]
  /\ UNCHANGED <<session, mounted, spawnSide, chan, backend, dropped>>

\* Sessions and kill(): spawn, events, kill and the answers to kill
NextKill ==
  \/ Spawn /\ PtyOnly
  \/ \E k \in SessionIds : OnMessage(k) /\ PtyOnly
  \/ \E k \in SessionIds : SpawnResolve(k) /\ PtyOnly
  \/ \E k \in SessionIds : BackendSpawnOk(k) /\ PtyOnly
  \/ \E k \in SessionIds : SpawnReject(k) /\ PtyOnly
  \/ \E k \in SessionIds, ev \in PtyEvents : BackendEmit(k, ev) /\ PtyOnly
  \/ KillNoted /\ PtyOnly
  \/ \E c \in BagToSet(inflight), res \in Results : Answer(c, res) /\ PtyOnly

SpecKill == Init /\ [][NextKill]_vars

\* ------------------------------------------------------- useTerminalStore
\* The state object of the store
StoreState ==
  [isReady |-> isReady, isWebGLActive |-> isWebGLActive, cols |-> cols, rows |-> rows,
   sessionId |-> sessionId, connectionStatus |-> connectionStatus]

\* variant: set() replaces the state object by the partial one; the fields
\* the partial lacks fall back to their defaults
Merge_Replace(state, partial) ==
  [f \in DOMAIN state |->
     IF f \in DOMAIN partial THEN partial[f]
     ELSE CASE f = "isReady" -> FALSE
            [] f = "isWebGLActive" -> FALSE
            [] f = "cols" -> 80
            [] f = "rows" -> 24
            [] f = "sessionId" -> NULL
            [] f = "connectionStatus" -> "disconnected"]

\* zustand set(partial): the partial object is merged into the state
Merge(state, partial) ==
  [f \in DOMAIN state |-> IF f \in DOMAIN partial THEN partial[f] ELSE state[f]]

\* The setters, as functions of the state they are called on
setReady(state, ready) == Merge(state, [isReady |-> ready])
setWebGLActive(state, active) == Merge(state, [isWebGLActive |-> active])
setDimensions(state, c, r) == Merge(state, [cols |-> c, rows |-> r])
setSessionId(state, id) == Merge(state, [sessionId |-> id])
setConnectionStatus(state, status) == Merge(state, [connectionStatus |-> status])

\* The store holds state next once the callback is over
StoreBecomes(next) ==
  /\ isReady' = next.isReady
  /\ isWebGLActive' = next.isWebGLActive
  /\ cols' = next.cols
  /\ rows' = next.rows
  /\ sessionId' = next.sessionId
  /\ connectionStatus' = next.connectionStatus

\* What a store call leaves alone: everything of usePty that is not in the store
StoreOnly ==
  UNCHANGED <<sessionIdRef, mounted, nSpawn, callState, handlerSet, chan, backend,
              inflight, seenPending, dropped, logVars, outVars, autoVars, sideVars>>

\* useTerminal, mount effect: the emulator is opened and fitted, its size is
\* stored and the store is told it is ready.  Two store calls in one callback.
TerminalMount(dim) ==
  /\ ~isReady
  /\ StoreBecomes(setReady(setDimensions(StoreState, dim[1], dim[2]), TRUE))
  /\ lastOp' = Did("terminalMount")
  /\ StoreOnly

\* useTerminal: tryLoadWebGL(terminal).then(active => setWebGLActive(active))
WebGLLoaded(active) ==
  /\ StoreBecomes(setWebGLActive(StoreState, active))
  /\ lastOp' = Did("webglLoaded")
  /\ StoreOnly

\* useTerminal: fitRef.current() after a ResizeObserver callback
Fit(dim) ==
  /\ isReady
  /\ StoreBecomes(setDimensions(StoreState, dim[1], dim[2]))
  /\ lastOp' = Did("fit")
  /\ StoreOnly

\* useTerminal, cleanup of the mount effect
TerminalUnmount ==
  /\ isReady
  /\ StoreBecomes(setReady(StoreState, FALSE))
  /\ lastOp' = Did("terminalUnmount")
  /\ StoreOnly

\* The two setters the connection manager calls
StoreSetSessionId(id) ==
  /\ StoreBecomes(setSessionId(StoreState, id))
  /\ lastOp' = Did("setSessionId")
  /\ StoreOnly

StoreSetConnectionStatus(status) ==
  /\ StoreBecomes(setConnectionStatus(StoreState, status))
  /\ lastOp' = Did("setConnectionStatus")
  /\ StoreOnly

NextStore ==
  \/ \E dim \in FitDims : TerminalMount(dim)
  \/ \E active \in BOOLEAN : WebGLLoaded(active)
  \/ \E dim \in FitDims : Fit(dim)
  \/ TerminalUnmount
  \/ \E id \in SessionIds \cup {NULL} : StoreSetSessionId(id)
  \/ \E status \in Statuses : StoreSetConnectionStatus(status)

\* The store under the calls of the emulator side and of the manager
SpecStore == Init /\ [][NextStore]_vars

\* ------------------------------------------- one session and its observers
\* One spawn() call, the events of its session and the calls the observers
\* (options.onData, options.onExit) receive.
LoggedEvents == PtyEvents \cup [event : {"Exit"}, code : {NullCode}]

LogSpawn ==
  /\ nSpawn = 0
  /\ Spawn
  /\ UNCHANGED <<emulatorVars, logVars, outVars, autoVars, sideVars>>

LogBackendSpawnOk ==
  /\ BackendSpawnOk(1)
  /\ UNCHANGED <<emulatorVars, logVars, outVars, autoVars, sideVars>>

LogSpawnResolve ==
  /\ SpawnResolve(1)
  /\ UNCHANGED <<emulatorVars, logVars, outVars, autoVars, sideVars>>

LogEmit(ev) ==
  /\ Len(emitted) < MaxEmit
  /\ Emit(1, ev)
  /\ emitted' = Append(emitted, ev)
  /\ UNCHANGED <<emulatorVars, observed, outVars, autoVars, sideVars>>

LogOnMessage ==
  /\ OnMessage(1)
  /\ observed' = IF handlerSet[1] THEN observed \o ObserverCalls(Head(chan[1])) ELSE observed
  /\ UNCHANGED <<emulatorVars, emitted, outVars, autoVars, sideVars>>

NextLog ==
  \/ LogSpawn
  \/ LogBackendSpawnOk
  \/ LogSpawnResolve
  \/ \E ev \in LoggedEvents : LogEmit(ev)
  \/ LogOnMessage

InitLog == InitWith({1})

SpecLog == InitLog /\ [][NextLog]_vars

\* ----------------------------------------- usePtyConnection, output path
\* variant: decoded output is queued even while a writer is attached
onData_AlwaysQueue(data) ==
  LET r == Decode(decoderRef, ToUint8Array(data)) IN
    /\ decoderRef' = r.dec
    /\ pendingOutputRef' = Append(pendingOutputRef, r.text)
    /\ IF writeRef # NULL THEN delivered' = Append(delivered, r.text)
                           ELSE UNCHANGED delivered

\* onData, the data observer given to usePty: decode in stream mode, then
\* write to the attached writer or push on the pending queue
onData(data) ==
  LET r == Decode(decoderRef, ToUint8Array(data)) IN
    /\ decoderRef' = r.dec
    /\ IF writeRef # NULL
         THEN delivered' = Append(delivered, r.text) /\ UNCHANGED pendingOutputRef
         ELSE pendingOutputRef' = Append(pendingOutputRef, r.text) /\ UNCHANGED delivered

\* variant: the exit observer leaves the pending queue as it is
onExit_KeepQueue ==
  /\ spawnedRef' = FALSE
  /\ UNCHANGED pendingOutputRef
  /\ decoderRef' = NewDecoder

\* onExit, the exit observer given to usePty
onExit ==
  /\ spawnedRef' = FALSE
  /\ pendingOutputRef' = <<>>
  /\ decoderRef' = NewDecoder

\* variant: the queue is written out but not emptied
Flush_KeepQueue(write) ==
  /\ writeRef' = write
  /\ IF write # NULL /\ Len(pendingOutputRef) > 0
       THEN /\ delivered' = Append(delivered, Join(pendingOutputRef))
            /\ UNCHANGED pendingOutputRef
       ELSE UNCHANGED <<pendingOutputRef, delivered>>

\* variant: only the oldest queued text is written out and removed
Flush_OnlyFirst(write) ==
  /\ writeRef' = write
  /\ IF write # NULL /\ Len(pendingOutputRef) > 0
       THEN /\ delivered' = Append(delivered, Head(pendingOutputRef))
            /\ pendingOutputRef' = Tail(pendingOutputRef)
       ELSE UNCHANGED <<pendingOutputRef, delivered>>

\* Effect on [write]: remember the writer; if there is one and the queue is
\* not empty, empty the queue and write its texts, joined, in one call
Flush(write) ==
  /\ writeRef' = write
  /\ IF write # NULL /\ Len(pendingOutputRef) > 0
       THEN /\ delivered' = Append(delivered, Join(pendingOutputRef))
            /\ pendingOutputRef' = <<>>
       ELSE UNCHANGED <<pendingOutputRef, delivered>>

\* What the output path leaves alone
OutOnly ==
  UNCHANGED <<connectionStatus, sessionId, sessionIdRef, mounted, nSpawn, callState,
              handlerSet, chan, backend, inflight, seenPending, dropped,
              emulatorVars, logVars, spawnRetryRef, readySeen, failed, sideVars>>

\* An Output event of the session is handled: usePty hands its bytes to onData
OutData(chunk) ==
  /\ Len(fragments) < MaxOut
  /\ onData(chunk)
  /\ fragments' = Append(fragments, Decode(decoderRef, chunk).text)
  /\ held' = IF writeRef = NULL THEN Append(held, Decode(decoderRef, chunk).text) ELSE held
  /\ lastOp' = Did("outData")
  /\ UNCHANGED <<writeRef, spawnedRef>>
  /\ OutOnly

\* The Exit event of the session is handled: usePty calls onExit.  The next
\* session starts with empty logs.
OutExit ==
  /\ onExit
  /\ delivered' = <<>>
  /\ fragments' = <<>>
  /\ held' = <<>>
  /\ lastOp' = Op("outExit", "none", NULL,
                  IF pendingOutputRef # <<>> THEN {"pending"} ELSE {})
  /\ UNCHANGED writeRef
  /\ OutOnly

\* The `write` prop changes (a writer attaches, or detaches: NULL) and the
\* effect on [write] runs
SetWriter(write) ==
  /\ write # writeRef
  /\ Flush(write)
  /\ held' = IF write # NULL THEN <<>> ELSE held
  /\ lastOp' = Did("setWriter")
  /\ UNCHANGED <<decoderRef, fragments, spawnedRef>>
  /\ OutOnly

NextOut ==
  \/ \E chunk \in OutChunks : OutData(chunk)
  \/ OutExit
  \/ \E write \in Writers \cup {NULL} : SetWriter(write)

SpecOut == Init /\ [][NextOut]_vars

\* The output of one session reaches onData in chunks, cut anywhere
DecChunks == UNION {[1..n -> DecBytes] : n \in 1..MaxChunk}

DecData(chunk) ==
  /\ Len(fed) + Len(chunk) <= MaxStream
  /\ onData(chunk)
  /\ fed' = fed \o ToUint8Array(chunk)
  /\ lastOp' = Did("decData")
  /\ UNCHANGED <<writeRef, fragments, held, spawnedRef, lineVars, panelVars>>

\* The session exits: onExit makes a new decoder
DecExit ==
  /\ fed # <<>>
  /\ onExit
  /\ fed' = <<>>
  /\ lastOp' = Did("decExit")
  /\ UNCHANGED <<writeRef, delivered, fragments, held, lineVars, panelVars>>

DecOnly ==
  UNCHANGED <<connectionStatus, sessionId, sessionIdRef, mounted, nSpawn, callState,
              handlerSet, chan, backend, inflight, seenPending, dropped,
              emulatorVars, logVars, spawnRetryRef, readySeen, failed>>

NextDecode ==
  \/ \E chunk \in DecChunks : DecData(chunk) /\ DecOnly
  \/ DecExit /\ DecOnly

SpecDecode == Init /\ [][NextDecode]_vars

\* ------------------------------------------------------- useLineBuffer
\* for (const ch of data): a string is walked by code points, a surrogate
\* pair being one ch of two code units
RECURSIVE ForOf(_)
ForOf(data) ==
  IF data = <<>> THEN <<>>
  ELSE IF /\ Len(data) >= 2
          /\ data[1] \in 55296..56319
          /\ data[2] \in 56320..57343
    THEN << <<data[1], data[2]>> >> \o ForOf(Tail(Tail(data)))
    ELSE << <<data[1]>> >> \o ForOf(Tail(data))

CR == <<13>>
CRLF == <<13, 10>>
Backspaces == {<<127>>, <<8>>}
Rubout == <<8, 32, 8>>                       \* '\b \b'

\* str.slice(0, -1): all but the last code unit
SliceOffLast(str) == SubSeq(str, 1, Len(str) - 1)

\* ch >= ' ': strings compare by code units
Printable(ch) == ch[1] >= 32

\* The body of the loop of handleData for one ch; st is the buffer and the
\* writes made so far
LineStep(st, ch) ==
  IF ch = CR
    THEN [buf |-> <<>>, out |-> Append(st.out, CRLF \o st.buf \o CRLF)]
  ELSE IF ch \in Backspaces
    THEN IF Len(st.buf) > 0
           THEN [buf |-> SliceOffLast(st.buf), out |-> Append(st.out, Rubout)]
           ELSE st
  ELSE IF Printable(ch)
    THEN [buf |-> st.buf \o ch, out |-> Append(st.out, ch)]
  ELSE st

RECURSIVE LineLoop(_, _)
LineLoop(st, chars) ==
  IF chars = <<>> THEN st ELSE LineLoop(LineStep(st, Head(chars)), Tail(chars))

\* The characters typed since the last CR and not taken back, after chars
\* were typed on top of line: a backspace takes back one whole character
RECURSIVE TypedAfter(_, _)
TypedAfter(line, chars) ==
  IF chars = <<>> THEN line
  ELSE LET ch == Head(chars)
           next == IF ch = CR THEN <<>>
                   ELSE IF ch \in Backspaces
                     THEN IF line = <<>> THEN line ELSE SubSeq(line, 1, Len(line) - 1)
                   ELSE IF Printable(ch) THEN Append(line, ch)
                   ELSE line
       IN TypedAfter(next, Tail(chars))

\* variant: the loop runs whether or not a writer is set
handleData_NoGuard(data) ==
  LineLoop([buf |-> lineBufferRef, out |-> <<>>], ForOf(data))

\* handleData(data): nothing without a writer, else the loop over data;
\* gives the buffer it leaves and the writes it makes
handleData(data) ==
  IF lineWriteRef = NULL
    THEN [buf |-> lineBufferRef, out |-> <<>>]
    ELSE LineLoop([buf |-> lineBufferRef, out |-> <<>>], ForOf(data))

setWrite(writeFn) == lineWriteRef' = writeFn

LineOnly == UNCHANGED <<ptyVars, emulatorVars, logVars, outVars, autoVars, fed, panelVars>>

LineHandleData(data) ==
  /\ Len(lineBufferRef) < MaxLine
  /\ lineBufferRef' = handleData(data).buf
  /\ lineLog' = [data |-> data,
                 out |-> handleData(data).out,
                 typed |-> IF lineWriteRef = NULL THEN lineLog.typed
                           ELSE TypedAfter(lineLog.typed, ForOf(data))]
  /\ UNCHANGED lineWriteRef
  /\ LineOnly

LineSetWrite(writeFn) ==
  /\ writeFn # lineWriteRef
  /\ setWrite(writeFn)
  /\ UNCHANGED <<lineBufferRef, lineLog>>
  /\ LineOnly

NextLine ==
  \/ \E data \in LineData : LineHandleData(data)
  \/ \E writeFn \in Writers \cup {NULL} : LineSetWrite(writeFn)

SpecLine == Init /\ [][NextLine]_vars

\* ------------------------------------------------------- TerminalPanel
\* What a render of TerminalPanel reads from the store
PanelNow ==
  [isReady |-> isReady, cols |-> cols, rows |-> rows,
   isConnected |-> connectionStatus = "connected"]

\* The store has not changed since the last render
PanelIdle == rendered = PanelNow

\* variant: the effect does not depend on isConnected
PanelResizeSync_NoConnDep(now) ==
  IF /\ now.cols # rendered.cols \/ now.rows # rendered.rows
     /\ now.isConnected /\ now.cols > 0 /\ now.rows > 0
    THEN /\ ResizeIssue(sessionIdRef, <<now.cols, now.rows>>)
         /\ sessionIdRef # NULL => NInflight < MaxInflight
         /\ lastResize' = IF sessionIdRef # NULL
                             THEN [id |-> sessionIdRef, dim |-> <<now.cols, now.rows>>]
                             ELSE lastResize
    ELSE UNCHANGED <<inflight, lastResize>>

\* Effect on [cols, rows, isConnected, ptyResize]: sync the size to the PTY
PanelResizeSync(now) ==
  IF /\ now.cols # rendered.cols \/ now.rows # rendered.rows
        \/ now.isConnected # rendered.isConnected
     /\ now.isConnected /\ now.cols > 0 /\ now.rows > 0
    THEN /\ ResizeIssue(sessionIdRef, <<now.cols, now.rows>>)
         /\ sessionIdRef # NULL => NInflight < MaxInflight
         /\ lastResize' = IF sessionIdRef # NULL
                             THEN [id |-> sessionIdRef, dim |-> <<now.cols, now.rows>>]
                             ELSE lastResize
    ELSE UNCHANGED <<inflight, lastResize>>

\* Effect on [isReady, cols, rows, ptySpawn]: spawn once the emulator is ready
PanelAutoSpawn(now) ==
  IF /\ now.isReady # rendered.isReady \/ now.cols # rendered.cols
        \/ now.rows # rendered.rows
     /\ now.isReady /\ ~spawnedRef
    THEN /\ spawnedRef' = TRUE
         /\ nSpawn < MaxSpawns
         /\ SpawnBegin(nSpawn + 1)
    ELSE UNCHANGED <<spawnedRef, connectionStatus, spawnSide>>

\* Effect on [isConnected, fit]: re-fit on connection; fit() stores the size
\* the emulator then has
PanelRefit(now, dim) ==
  IF now.isConnected # rendered.isConnected /\ now.isConnected
    THEN cols' = dim[1] /\ rows' = dim[2]
    ELSE UNCHANGED <<cols, rows>>

\* onExit, the exit observer TerminalPanel gives to usePty
PanelOnExit == spawnedRef' = FALSE

PanelOnly ==
  UNCHANGED <<isWebGLActive, logVars, outVars, spawnRetryRef, readySeen, failed,
              fed, lineVars>>

\* The store changed: TerminalPanel renders and its effects run, in source order
PanelCommit ==
  /\ mounted
  /\ ~PanelIdle
  /\ rendered' = PanelNow
  /\ PanelResizeSync(PanelNow)
  /\ PanelAutoSpawn(PanelNow)
  /\ \E dim \in FitDims : PanelRefit(PanelNow, dim)
  /\ lastOp' = Did("commit")
  /\ UNCHANGED <<sessionId, sessionIdRef, mounted, chan, backend, seenPending, dropped,
                 isReady>>
  /\ PanelOnly

\* An event of call k is handled; an Exit event reaches TerminalPanel's onExit
PanelOnMessage(k) ==
  /\ OnMessage(k)
  /\ IF handlerSet[k] /\ Head(chan[k]).event = "Exit"
       THEN PanelOnExit
       ELSE UNCHANGED spawnedRef
  /\ UNCHANGED <<isReady, cols, rows, panelVars>>
  /\ PanelOnly

\* onData, the data observer TerminalPanel gives to usePty: the decoded text
\* goes to the writer if there is one
PanelOnData(data) ==
  LET r == Decode(decoderRef, ToUint8Array(data)) IN
    /\ decoderRef' = r.dec
    /\ IF writeRef # NULL THEN delivered' = Append(delivered, r.text)
                           ELSE UNCHANGED delivered

PanelOutOnly ==
  UNCHANGED <<connectionStatus, sessionId, sessionIdRef, mounted, nSpawn, callState,
              handlerSet, chan, backend, inflight, seenPending, dropped,
              emulatorVars, logVars, pendingOutputRef, held, spawnRetryRef, readySeen,
              failed, lineVars, panelVars>>

\* An Output event of the session is handled
PanelOutData(chunk) ==
  /\ Len(fragments) < MaxOut
  /\ PanelOnData(chunk)
  /\ fragments' = Append(fragments, Decode(decoderRef, ToUint8Array(chunk)).text)
  /\ fed' = fed \o ToUint8Array(chunk)
  /\ lastOp' = Did("outData")
  /\ UNCHANGED <<writeRef, spawnedRef>>
  /\ PanelOutOnly

\* The Exit event of the session is handled: the logs of the next session
\* start empty
PanelOutExit ==
  /\ PanelOnExit
  /\ delivered' = <<>>
  /\ fragments' = <<>>
  /\ fed' = <<>>
  /\ lastOp' = Did("outExit")
  /\ UNCHANGED <<writeRef, decoderRef>>
  /\ PanelOutOnly

\* Effect on [write]: writeRef.current = write
PanelSetWriter(write) ==
  /\ write # writeRef
  /\ writeRef' = write
  /\ lastOp' = Did("setWriter")
  /\ UNCHANGED <<decoderRef, delivered, fragments, fed, spawnedRef>>
  /\ PanelOutOnly

NextPanelOut ==
  \/ \E chunk \in OutChunks : PanelOutData(chunk)
  \/ PanelOutExit
  \/ \E write \in Writers \cup {NULL} : PanelSetWriter(write)

SpecPanelOut == Init /\ [][NextPanelOut]_vars

\* React renders before the next callback runs: everything else waits for the
\* effects of a changed store
NextPanel ==
  \/ PanelCommit
  \/ \E dim \in FitDims : PanelIdle /\ TerminalMount(dim)
  \/ \E dim \in FitDims : PanelIdle /\ Fit(dim)
  \/ \E k \in SessionIds : PanelIdle /\ PanelOnMessage(k)
  \/ \E k \in SessionIds : PanelIdle /\ SpawnResolve(k) /\ PtyOnly
  \/ \E k \in SessionIds : PanelIdle /\ BackendSpawnOk(k) /\ PtyOnly
  \/ \E k \in SessionIds : PanelIdle /\ SpawnReject(k) /\ PtyOnly
  \/ \E k \in SessionIds, ev \in [event : {"Exit"}, code : ExitCodes] \cup [event : {"Error"}] :
        PanelIdle /\ BackendEmit(k, ev) /\ PtyOnly
  \/ \E c \in BagToSet(inflight), res \in Results : PanelIdle /\ Answer(c, res) /\ PtyOnly

SpecPanel == Init /\ [][NextPanel]_vars

\* ------------------------------------------ usePtyConnection, auto-spawn
\* Effect on [isReady, ptySpawn]: spawn once the emulator is ready, unless a
\* spawn is marked as made or the retries are used up.  k is the next call.
AutoSpawn(k) ==
  IF isReady /\ ~spawnedRef /\ spawnRetryRef < MAX_SPAWN_RETRIES
    THEN /\ spawnedRef' = TRUE
         /\ k \in AutoIds
         /\ SpawnBegin(k)
         /\ lastOp' = Did("spawn")
    ELSE /\ lastOp' = Did("effect")
         /\ UNCHANGED <<spawnedRef, connectionStatus, nSpawn, callState, handlerSet>>

\* ptySpawn(...).catch(...): runs only when the promise of spawn() rejects
SpawnCatch ==
  /\ spawnedRef' = FALSE
  /\ spawnRetryRef' = spawnRetryRef + 1

\* What the auto-spawn layer leaves alone
AutoOnly == UNCHANGED <<logVars, writeRef, delivered, fragments, held, sideVars>>

\* The emulator reports ready (mount effect of useTerminal) or not ready (its cleanup)
AutoSetReady(ready) ==
  /\ ready # isReady
  /\ StoreBecomes(setReady(StoreState, ready))
  /\ lastOp' = Did("setReady")
  /\ UNCHANGED <<sessionIdRef, mounted, nSpawn, callState, handlerSet, chan, backend,
                 inflight, seenPending, dropped, pendingOutputRef, decoderRef, autoVars>>
  /\ AutoOnly

\* React runs the effect after a render in which isReady differs from the
\* value of the previous run
AutoSpawnEffect ==
  /\ isReady # readySeen
  /\ readySeen' = isReady
  /\ AutoSpawn(nSpawn + 1)
  /\ UNCHANGED <<sessionId, sessionIdRef, mounted, chan, backend, inflight, seenPending,
                 dropped, emulatorVars, pendingOutputRef, decoderRef, spawnRetryRef, failed>>
  /\ AutoOnly

AutoBackendSpawnOk(k) ==
  /\ BackendSpawnOk(k)
  /\ UNCHANGED <<emulatorVars, pendingOutputRef, decoderRef, autoVars>>
  /\ AutoOnly

\* spawn() resolves after a success: the catch does not run
AutoSpawnResolve(k) ==
  /\ SpawnResolve(k)
  /\ UNCHANGED <<emulatorVars, pendingOutputRef, decoderRef, autoVars>>
  /\ AutoOnly

\* spawn() resolves after a SpawnError result: the catch does not run
AutoSpawnReject(k) ==
  /\ SpawnReject(k)
  /\ failed' = failed + 1
  /\ UNCHANGED <<emulatorVars, pendingOutputRef, decoderRef, spawnedRef, spawnRetryRef,
                 readySeen>>
  /\ AutoOnly

\* spawn() rejects because the ptySpawn promise did: the catch runs
AutoSpawnThrows(k) ==
  /\ SpawnThrows(k)
  /\ SpawnCatch
  /\ failed' = failed + 1
  /\ UNCHANGED <<emulatorVars, pendingOutputRef, decoderRef, readySeen>>
  /\ AutoOnly

AutoEmit(k, ev) ==
  /\ SumLen(chan, MaxAuto) < MaxEvents
  /\ Emit(k, ev)
  /\ UNCHANGED <<emulatorVars, pendingOutputRef, decoderRef, autoVars>>
  /\ AutoOnly

\* An event of call k is handled; an Exit event reaches onExit
AutoOnMessage(k) ==
  /\ OnMessage(k)
  /\ IF handlerSet[k] /\ Head(chan[k]).event = "Exit"
       THEN onExit
       ELSE UNCHANGED <<spawnedRef, pendingOutputRef, decoderRef>>
  /\ UNCHANGED <<emulatorVars, spawnRetryRef, readySeen, failed>>
  /\ AutoOnly

NextAuto ==
  \/ \E ready \in BOOLEAN : AutoSetReady(ready)
  \/ AutoSpawnEffect
  \/ \E k \in AutoIds : AutoBackendSpawnOk(k)
  \/ \E k \in AutoIds : AutoSpawnResolve(k)
  \/ \E k \in AutoIds : AutoSpawnReject(k)
  \/ \E k \in AutoIds : AutoSpawnThrows(k)
  \/ \E k \in AutoIds, ev \in [event : {"Exit"}, code : ExitCodes] \cup [event : {"Error"}] :
        AutoEmit(k, ev)
  \/ \E k \in AutoIds : AutoOnMessage(k)

\* usePtyConnection's auto-spawn over usePty
InitAuto == InitWith(AutoIds)

SpecAuto == InitAuto /\ [][NextAuto]_vars

TypeOK ==
  /\ connectionStatus \in Statuses
  /\ sessionId \in SessionIds \cup {NULL}
  /\ sessionIdRef \in SessionIds \cup {NULL}
  /\ mounted \in BOOLEAN
  /\ nSpawn \in 0..MaxSpawns
  /\ InFlightEvents <= MaxEvents
  /\ NInflight <= MaxInflight

\* ----------------------------------------------------------------- claims
allButLastOp == <<connectionStatus, sessionId, sessionIdRef, mounted, nSpawn, callState,
                  handlerSet, chan, backend, inflight, seenPending, dropped>>

SpawnJustResolved(res) == lastOp.op = "spawnResolved" /\ lastOp.res = res

\* C1: when an Exit event of a spawn was handled while its ptySpawn call was
\* pending, then right after the call resolves with success the status is
\* 'disconnected' and the session id is null in the store and in sessionIdRef.
C1_ExitBeforeSpawnOk ==
  (SpawnJustResolved("ok") /\ "Exit" \in lastOp.seen)
    => /\ connectionStatus = "disconnected"
       /\ sessionId = NULL
       /\ sessionIdRef = NULL

\* C2: when an Error event of a spawn (and no Exit) was handled while its
\* ptySpawn call was pending, then right after the call resolves with success
\* the status is 'error', not 'connected'.
C2_ErrorBeforeSpawnOk ==
  (SpawnJustResolved("ok") /\ "Error" \in lastOp.seen /\ "Exit" \notin lastOp.seen)
    => connectionStatus = "error"

\* C3: in every state the store shows, a session id is held only while the
\* status is 'connected'.
C3_IdImpliesConnected ==
  sessionId # NULL => connectionStatus = "connected"

C5_SessionNotFoundResets ==
  (lastOp.op \in {"writeResolved", "resizeResolved"} /\ lastOp.res = "SessionNotFound")
    => /\ sessionId = NULL
       /\ sessionIdRef = NULL
       /\ connectionStatus = "disconnected"

C5_Witness ==
  /\ lastOp.op = "writeResolved"
  /\ lastOp.res = "SessionNotFound"
  /\ sessionId = NULL
  /\ connectionStatus = "disconnected"

\* C6: a ptyWrite or ptyResize call answered with an error other than
\* SessionNotFound changes neither the status nor the session id (store and
\* sessionIdRef), so the id stays usable for the next call.
C6_OtherErrorKeepsState ==
  [][(lastOp'.op \in {"writeResolved", "resizeResolved"} /\ lastOp'.res = "IoError")
       => UNCHANGED session]_vars

C6_Witness ==
  /\ lastOp.op \in {"writeResolved", "resizeResolved"}
  /\ lastOp.res = "IoError"
  /\ connectionStatus = "connected"
  /\ sessionIdRef # NULL
  /\ sessionId = sessionIdRef

\* C7: write and resize called while no session id is held issue no backend
\* call and change no state.
C7_NoIdNoCall ==
  [][(lastOp'.op \in {"write", "resize"} /\ sessionIdRef = NULL)
       => UNCHANGED allButLastOp]_vars

C7_Witness ==
  /\ lastOp.op = "write"
  /\ sessionIdRef = NULL
  /\ inflight = EmptyBag
  /\ \E k \in SessionIds : Pending(k)

\* C8: a ptySpawn call is never out without the onmessage handler installed
\* on its channel, and no event the backend emitted reaches a channel that
\* has no handler.
C8_HandlerBeforeCall ==
  /\ \A k \in SessionIds : callState[k] # "unissued" => handlerSet[k]
  /\ ~dropped

C8_Witness ==
  /\ lastOp.op = "Output"
  /\ nSpawn = 1
  /\ callState[1] = "respOk"
  /\ ~dropped

\* C9: right after a ptySpawn call resolved with success and id s, no Exit or
\* Error event having been handled on its channel while it was pending, the
\* status is 'connected' and the session id is s.
C9_SpawnOkConnects ==
  (SpawnJustResolved("ok") /\ lastOp.seen \cap {"Exit", "Error"} = {})
    => /\ connectionStatus = "connected"
       /\ sessionId = lastOp.id
       /\ sessionIdRef = lastOp.id

C9_Witness ==
  /\ SpawnJustResolved("ok")
  /\ lastOp.seen = {}
  /\ connectionStatus = "connected"
  /\ sessionId = lastOp.id

\* C10: right after a ptySpawn call resolved with a failure, the status is
\* 'error' and the session id is null.
C10_SpawnFailNoSession ==
  SpawnJustResolved("SpawnError")
    => /\ connectionStatus = "error"
       /\ sessionId = NULL

\* C11: handling an Exit(code) event while the status is 'connected' sets the
\* status to 'disconnected' and the session id to null and calls the exit
\* observer exactly once, with that code, a null code included.
C11_ExitWhileConnected ==
  [][(lastOp'.op = "Exit" /\ connectionStatus = "connected")
       => /\ connectionStatus' = "disconnected"
          /\ sessionId' = NULL
          /\ sessionIdRef' = NULL
          /\ observed' = Append(observed, [obs |-> "exit", code |-> Head(chan[1]).code])]_vars

C11_Witness ==
  /\ lastOp.op = "Exit"
  /\ callState[1] = "resolved"
  /\ \A i \in 1..Len(emitted) : emitted[i].event # "Error"
  /\ observed # <<>>
  /\ observed[Len(observed)] = [obs |-> "exit", code |-> NullCode]
  /\ connectionStatus = "disconnected"
  /\ sessionId = NULL

\* C12: when a writer attaches after Output events were handled with no
\* writer attached, the writer gets exactly one write, the decoded fragments
\* held since then joined in arrival order, and the pending queue is empty
\* afterwards; within a session no other step than the handling of an Output
\* event makes a further write.
C12_FlushOnAttach ==
  [][/\ (lastOp'.op = "setWriter" /\ writeRef' # NULL /\ held # <<>>)
          => /\ delivered' = Append(delivered, Join(held))
             /\ pendingOutputRef' = <<>>
     /\ (delivered' # delivered /\ lastOp'.op # "outExit")
          => \/ lastOp'.op = "outData"
             \/ (lastOp'.op = "setWriter" /\ writeRef' # NULL /\ held # <<>>)]_vars

C12_Witness ==
  /\ lastOp.op = "setWriter"
  /\ writeRef # NULL
  /\ fragments = << <<>>, <<233>>, <<104, 105>> >>
  /\ delivered = << <<233, 104, 105>> >>
  /\ pendingOutputRef = <<>>

\* C13: within a session, however Output events and writer attach / detach
\* interleave, the texts written so far followed by the texts still queued
\* are the decoded fragments in arrival order, each once: fragments are
\* queued exactly while no writer is attached and the queue is empty while
\* one is.
C13_EachFragmentOnce ==
  /\ Join(delivered) \o Join(pendingOutputRef) = Join(fragments)
  /\ writeRef # NULL => pendingOutputRef = <<>>
  /\ writeRef = NULL => pendingOutputRef = held

C13_Witness ==
  /\ writeRef = NULL
  /\ Len(delivered) = 2
  /\ Len(pendingOutputRef) = 1
  /\ Len(fragments) = 3
  /\ Join(fragments) = <<104, 105, 65533, 104, 105>>

SpawnJustFailed ==
  \/ SpawnJustResolved("SpawnError")
  \/ lastOp.op = "spawnRejected"

\* C14: a failed spawn is retried while fewer than MAX_SPAWN_RETRIES attempts
\* have failed: the auto-spawn guard is free again after the failure, every
\* spawn call sets the status to 'connecting', no spawn call is made once
\* MAX_SPAWN_RETRIES attempts have failed, and after the last failure the
\* status is 'error'.
C14_BoundedRetry ==
  /\ (SpawnJustFailed /\ failed < MAX_SPAWN_RETRIES) => ~spawnedRef
  /\ lastOp.op = "spawn" => (connectionStatus = "connecting" /\ failed < MAX_SPAWN_RETRIES)
  /\ (SpawnJustFailed /\ failed >= MAX_SPAWN_RETRIES) => connectionStatus = "error"


\* C15: spawn() never rejects, and right after a ptySpawn call failed, by an
\* error result or by a rejected promise, the status is 'error'.
C15_SpawnAbsorbsFailure ==
  /\ lastOp.op # "spawnRejected"
  /\ (lastOp.op \in {"spawnResolved", "spawnRejected"} /\ lastOp.res # "ok")
       => connectionStatus = "error"

\* C16: the status changes to 'error' only in the handler of an Error event
\* or in the continuation of a ptySpawn call answered with an error; no
\* answer of ptyWrite, ptyResize or ptyKill makes it 'error'.
C16_ErrorOnlyFromEventOrSpawn ==
  [][(connectionStatus' = "error" /\ connectionStatus # "error")
       => \/ lastOp'.op = "Error"
          \/ (lastOp'.op = "spawnResolved" /\ lastOp'.res = "SpawnError")]_vars

C16_Witness ==
  /\ lastOp.op = "resizeResolved"
  /\ lastOp.res = "IoError"
  /\ connectionStatus = "connecting"
  /\ sessionIdRef # NULL

\* C17: every change of the status follows the graph: 'connecting' is entered
\* only by spawn(); 'connected' is entered only from 'connecting'; 'connected'
\* is left only to 'disconnected' (Exit, kill, lost session) or to 'error'
\* (Error event).
C17_StatusGraph ==
  [][connectionStatus' # connectionStatus =>
       /\ connectionStatus' = "connecting" => lastOp'.op = "spawn"
       /\ connectionStatus' = "connected" => connectionStatus = "connecting"
       /\ connectionStatus = "connected" =>
            \/ /\ connectionStatus' = "disconnected"
               /\ lastOp'.op \in {"Exit", "killResolved", "writeResolved", "resizeResolved"}
            \/ /\ connectionStatus' = "error"
               /\ lastOp'.op = "Error"]_vars

\* C18: the unmount cleanup issues one ptyKill call for the held id exactly
\* when an id is held, completes without its answer, and neither the cleanup
\* nor any answer to that call changes the status or the session id.
C18_TeardownKill ==
  [][/\ lastOp'.op = "unmount" =>
          /\ inflight' = IF sessionIdRef # NULL
                           THEN Issue(Call("ptyKill", sessionIdRef, <<>>, "none"))
                           ELSE inflight
          /\ UNCHANGED session
     /\ lastOp'.op = "noneResolved" => UNCHANGED session]_vars

C18_Witness ==
  /\ lastOp.op = "noneResolved"
  /\ lastOp.res = "IoError"
  /\ ~mounted
  /\ connectionStatus = "connected"
  /\ sessionIdRef # NULL

\* The observer calls a sequence of handled events is to produce
RECURSIVE C19_Expected(_)
C19_Expected(evs) ==
  IF evs = <<>> THEN <<>>
  ELSE LET ev == Head(evs) IN
         (CASE ev.event = "Output" -> <<[obs |-> "data", bytes |-> ev.data]>>
            [] ev.event = "Exit" -> <<[obs |-> "exit", code |-> ev.code]>>
            [] ev.event = "Error" -> <<>>)
         \o C19_Expected(Tail(evs))

\* C19: the events of a session are handled in the order emitted: the
\* observers have received one data call per handled Output event and one
\* exit call per handled Exit event, in the order of the events, so every
\* Output that precedes an Exit is observed before it.
C19_ObservedInOrder ==
  observed = C19_Expected(SubSeq(emitted, 1, Len(emitted) - Len(chan[1])))

C19_Witness ==
  /\ Len(observed) = 3
  /\ observed[1].obs = "data"
  /\ observed[2].obs = "data"
  /\ observed[3].obs = "exit"
  /\ Len(chan[1]) = 0

\* C20: the store calls of the emulator side (setDimensions, setReady,
\* setWebGLActive) leave connectionStatus and sessionId unchanged, and
\* setConnectionStatus and setSessionId each change no field but their own.
C20_StoreFieldsIndependent ==
  [][/\ lastOp'.op \in {"terminalMount", "webglLoaded", "fit", "terminalUnmount"}
          => UNCHANGED <<connectionStatus, sessionId>>
     /\ lastOp'.op = "setConnectionStatus" => UNCHANGED <<sessionId, emulatorVars>>
     /\ lastOp'.op = "setSessionId" => UNCHANGED <<connectionStatus, emulatorVars>>]_vars

C20_Witness ==
  /\ lastOp.op = "fit"
  /\ <<cols, rows>> = <<120, 40>>
  /\ isReady
  /\ connectionStatus = "connected"
  /\ sessionId # NULL

C22_WriteSendsUtf8 ==
  [][/\ (lastOp'.op = "write" /\ sessionIdRef # NULL)
          => /\ inflight' = inflight (+) SetToBag({[cmd |-> "ptyWrite", id |-> sessionIdRef,
                                                    arg |-> <<108, 195, 169>>, cont |-> "write"]})
             /\ UNCHANGED <<session, mounted, spawnSide, chan, backend, seenPending, dropped>>
     /\ (lastOp'.op = "writeResolved" /\ lastOp'.res = "ok") => UNCHANGED session]_vars

C22_Witness ==
  /\ lastOp.op = "writeResolved"
  /\ lastOp.res = "ok"
  /\ connectionStatus = "connected"
  /\ sessionIdRef # NULL
  /\ sessionId = sessionIdRef
  /\ inflight = EmptyBag

\* C23: however the bytes handed to one decoder were cut into chunks, the
\* texts its decode calls returned, one after the other, are the text one
\* stream-mode decode call returns for all the bytes at once; the first byte
\* of a two-byte character alone gives no text and the character appears
\* with its second byte; a malformed sequence gives U+FFFD in its place.
C23_ChunkBoundaryIndependent ==
  /\ Join(pendingOutputRef) = Decode(NewDecoder, fed).text
  /\ fed = <<104, 195>> => Join(pendingOutputRef) = <<104>>
  /\ fed = <<104, 195, 169>> => Join(pendingOutputRef) = <<104, 233>>
  /\ fed = <<239, 187, 191, 104>> => Join(pendingOutputRef) = <<104>>
  /\ fed = <<169, 104>> => Join(pendingOutputRef) = <<65533, 104>>
  /\ fed = <<195, 104>> => Join(pendingOutputRef) = <<65533, 104>>
  /\ fed = <<239, 187, 104>> => Join(pendingOutputRef) = <<65533, 104>>

C23_Witness ==
  /\ lastOp.op = "decData"
  /\ fed = <<104, 195, 169, 104>>
  /\ pendingOutputRef = << <<104>>, <<233>>, <<104>> >>

\* A handleData call made with a writer set that changed something
LineCall ==
  /\ lineWriteRef # NULL
  /\ lineWriteRef' = lineWriteRef
  /\ <<lineBufferRef, lineLog>>' # <<lineBufferRef, lineLog>>

\* C24: with a writer set, a CR makes exactly one write, CR LF, the line,
\* CR LF, and empties the buffer, the line being the printable characters
\* received since the previous CR, in order, less those a backspace took
\* back; and a printable character is written once as it is received.
C24_FlushOnCR ==
  [][LineCall
       => /\ lineLog'.data = CR
               => /\ lineLog'.out = << CRLF \o Join(lineLog.typed) \o CRLF >>
                  /\ lineBufferRef' = <<>>
          /\ lineLog'.data \in {<<97>>, <<98>>, <<55357, 56832>>}
               => lineLog'.out = << lineLog'.data >>
          /\ lineLog'.data = <<97, 98, 13>>
               => lineLog'.out = << <<97>>, <<98>>,
                                    CRLF \o Join(lineLog.typed) \o <<97, 98>> \o CRLF >>]_vars

\* C25: with a writer set, DEL or BS on a non-empty buffer removes the last
\* character of the buffer and writes BS, space, BS; on an empty buffer it
\* writes nothing and changes nothing; a control character other than CR
\* and BS is neither written nor buffered.
C25_Backspace ==
  [][LineCall
       => /\ (lineLog'.data \in Backspaces /\ lineBufferRef # <<>>)
               => /\ lineBufferRef' = Join(SliceOffLast(ForOf(lineBufferRef)))
                  /\ lineLog'.out = << Rubout >>
          /\ (lineLog'.data \in Backspaces /\ lineBufferRef = <<>>)
               => /\ lineBufferRef' = <<>>
                  /\ lineLog'.out = <<>>
          /\ lineLog'.data = <<27>>
               => /\ lineBufferRef' = lineBufferRef
                  /\ lineLog'.out = <<>>]_vars

\* C26: a handleData call made while no writer is set makes no write and
\* leaves the buffer as it was.
C26_NoWriterNoEffect ==
  [][(lineWriteRef = NULL /\ lineWriteRef' = NULL)
       => /\ lineLog'.out = <<>>
          /\ lineBufferRef' = lineBufferRef]_vars

C26_Witness ==
  /\ lineWriteRef = NULL
  /\ lineLog.data = <<97>>
  /\ lineLog.out = <<>>
  /\ lineBufferRef = <<98>>

\* C27: a kill() made while no session id is held (a spawn call pending)
\* issues no call and changes no state; and when a spawn call that saw such
\* a kill() resolves, 'connected' with an id is shown only for a session
\* running on the backend (or whose Exit event is still to be handled), and
\* 'disconnected' with a null id is not shown for a session of that call
\* that is running.
C27_KillWhilePending ==
  [][/\ (lastOp'.op = "kill" /\ sessionIdRef = NULL)
          => UNCHANGED <<session, mounted, spawnSide, chan, backend, inflight, dropped>>
     /\ (lastOp'.op = "spawnResolved" /\ "kill" \in lastOp'.seen)
          => /\ (connectionStatus' = "connected" /\ sessionId' # NULL)
                  => \/ backend'[sessionId'] = "running"
                     \/ \E i \in DOMAIN chan'[sessionId'] : chan'[sessionId'][i].event = "Exit"
             /\ (connectionStatus' = "disconnected" /\ sessionId' = NULL /\ lastOp'.id # NULL)
                  => backend'[lastOp'.id] # "running"]_vars

\* C28: right after any spawn() call, the first one or one made after an
\* earlier call ended, its ptySpawn call is out and the status is 'connecting'.
C28_SpawnSetsConnecting ==
  lastOp.op = "spawn" => (connectionStatus = "connecting" /\ callState[nSpawn] = "sent")

C28_Witness ==
  /\ lastOp.op = "spawn"
  /\ nSpawn = 2
  /\ callState[1] = "resolved"
  /\ backend[1] = "none"
  /\ connectionStatus = "connecting"

\* C29: when a spawn call of the auto-spawn layer ends with a SpawnError
\* result, that step releases the auto-spawn guard and adds one to the retry
\* counter.
C29_SpawnErrorCountsAsFailure ==
  [][(lastOp'.op = "spawnResolved" /\ lastOp'.res = "SpawnError")
       => /\ spawnedRef' = FALSE
          /\ spawnRetryRef' = spawnRetryRef + 1]_vars

\* C30: a spawn request that is not a retry, one made after the previous
\* call had succeeded and its session had ended, starts with the retry
\* counter at zero.
C30_CounterResetOnNewRequest ==
  (/\ lastOp.op = "spawn"
   /\ nSpawn > 1
   /\ callState[nSpawn - 1] = "resolved"
   /\ backend[nSpawn - 1] = "exited")
    => spawnRetryRef = 0

\* C31: handling an Exit event leaves the pending queue empty, whatever was
\* queued before; a writer attaching right after the Exit gets no write; and
\* what the writers of a session got is never more than what that session's
\* decoder returned.
C31_ExitClearsPending ==
  [][/\ lastOp'.op = "outExit" => pendingOutputRef' = <<>>
     /\ (lastOp.op = "outExit" /\ lastOp'.op = "setWriter") => delivered' = delivered
     /\ LET got == Join(delivered') IN
          /\ Len(got) <= Len(Join(fragments'))
          /\ got = SubSeq(Join(fragments'), 1, Len(got))]_vars

C31_Witness ==
  /\ lastOp.op = "outExit"
  /\ "pending" \in lastOp.seen
  /\ writeRef = NULL
  /\ pendingOutputRef = <<>>

\* C32: the texts the decoder returned since the last Exit event, one after
\* the other, are the text a new decoder returns for the bytes handed over
\* since then: nothing of the session before is left in the decoder.
C32_ExitResetsDecoder ==
  Join(fragments) = Decode(NewDecoder, fed).text

\* C33: when the answer of a write, resize or kill call made for one session
\* is handled while another session is held (SessionNotFound being answered
\* only for a session that is gone), the status and the session id stay as
\* they are in the store and in sessionIdRef.
C33_LateAnswerIgnored ==
  [][(/\ lastOp'.op \in {"writeResolved", "resizeResolved", "killResolved"}
      /\ sessionIdRef # NULL
      /\ \E c \in BagToSet(inflight) :
            /\ CopiesIn(c, inflight') < CopiesIn(c, inflight)
            /\ c.id # sessionIdRef
            /\ lastOp'.res = "SessionNotFound" => backend[c.id] # "running")
       => UNCHANGED session]_vars

\* C34: when an Exit or Error event of the channel of an earlier spawn is
\* handled while the session of a later spawn is held, the status and the
\* session id stay as they are in the store and in sessionIdRef.
C34_StaleEventIgnored ==
  [][(/\ lastOp'.op \in {"Exit", "Error"}
      /\ sessionIdRef # NULL
      /\ \E k \in SessionIds :
            /\ k < sessionIdRef
            /\ Len(chan'[k]) < Len(chan[k]))
       => UNCHANGED session]_vars

\* C35: when a spawn call resolves with a session that is running, the hook
\* is still mounted and holds that session; and a running session held until
\* then, if it is another one, has a ptyKill call under way.
C35_NoLeakedSession ==
  [][(lastOp'.op = "spawnResolved" /\ lastOp'.res = "ok")
       => /\ backend'[lastOp'.id] = "running"
               => (mounted' /\ sessionIdRef' = lastOp'.id)
          /\ (/\ sessionIdRef \notin {NULL, lastOp'.id}
              /\ backend[sessionIdRef] = "running")
               => \E c \in BagToSet(inflight') : c.cmd = "ptyKill" /\ c.id = sessionIdRef]_vars

\* C36: at most one spawn call of the auto-spawn effect is pending at any
\* time, and right after the effect made a spawn call no session is held.
C36_OneSpawnAtATime ==
  /\ \A j, k \in AutoIds : (Pending(j) /\ Pending(k)) => j = k
  /\ lastOp.op = "spawn" => sessionIdRef = NULL

\* C37: when the auto-spawn effect runs with the emulator ready, retries
\* left and no spawn call pending, and makes no spawn call, then a session
\* is connected.
C37_GuardReleased ==
  [][(/\ lastOp'.op = "effect"
      /\ isReady
      /\ spawnRetryRef < MAX_SPAWN_RETRIES
      /\ \A k \in AutoIds : ~Pending(k))
       => connectionStatus = "connected"]_vars

C39_AttachedMeansDrained ==
  [][/\ writeRef' # NULL => pendingOutputRef' = <<>>
     /\ Len(pendingOutputRef') > Len(pendingOutputRef)
          => (writeRef = NULL /\ lastOp'.op = "outData")]_vars

C39_Witness ==
  /\ lastOp.op = "setWriter"
  /\ writeRef # NULL
  /\ pendingOutputRef = <<>>
  /\ Len(fragments) = 2
  /\ delivered = << <<104, 105, 104, 105>> >>

====
